---- MODULE Spec2Model ----
(***************************************************************************)
(* Model of the loan interest calculator (src/src/main.rs): the Loan       *)
(* record and its accrual computation, the LoanCalculator registry, and    *)
(* the menu handlers that drive them.                                      *)
(*                                                                         *)
(* Dates are day numbers counted from 2020-01-01 (day 0).  f64 values are  *)
(* exact rationals <<n, d>> in lowest terms with d > 0; rounding of the    *)
(* floating-point unit is not modelled.  u32 identifiers keep a fixed      *)
(* range 0..MaxId.                                                         *)
(***************************************************************************)
EXTENDS Integers, Sequences, FiniteSets, TLC

VARIABLES
    calculator,       \* the LoanCalculator main owns: [loans, next_loan_id]
    overflow_checks,  \* whether the build checks integer overflow (debug) or not (release)
    status,           \* "running", "exited" (choice 5) or "panicked"
    last,             \* the last menu choice handled: [op, res, id, inp]
    issued,           \* the ids add_loan has returned so far
    loan,             \* a Loan held outside any registry, for the accrual engine alone
    stage             \* what was last done to `loan`

vars == <<calculator, overflow_checks, status, last, issued, loan, stage>>

registry_vars == <<calculator, overflow_checks, status, last, issued>>

engine_vars == <<loan, stage>>

(***************************************************************************)
(* Bounds of the model.                                                    *)
(***************************************************************************)
\* largest value of the identifier type (u32::MAX, scaled down); identifiers are
\* the integers 0..MaxId and arithmetic on them is modulo MaxId + 1
MaxId == 3

\* dates handed to the accrual engine range over 0..MaxDate
MaxDate == 3

\* divisor of the daily rate
DaysPerYear == 365

\* divisor turning a percentage into a fraction
Percent == 100

(***************************************************************************)
(* Exact arithmetic standing for f64.                                      *)
(***************************************************************************)
Abs(n) == IF n < 0 THEN -n ELSE n

RECURSIVE GCD(_, _)
GCD(a, b) == IF b = 0 THEN a ELSE GCD(b, a % b)

Rat(n, d) ==
    LET g == GCD(Abs(n), Abs(d))
        s == IF d < 0 THEN -1 ELSE 1
    IN  <<(s * n) \div g, (s * d) \div g>>

FromInt(n) == <<n, 1>>

Zero == FromInt(0)

RatAdd(a, b) == Rat(a[1] * b[2] + b[1] * a[2], a[2] * b[2])

RatMul(a, b) == Rat(a[1] * b[1], a[2] * b[2])

RatDiv(a, b) == Rat(a[1] * b[2], a[2] * b[1])

RatNeg(a) == a[1] < 0

RatPos(a) == a[1] > 0

(***************************************************************************)
(* BTreeMap: a function on its finite key set.                             *)
(***************************************************************************)
EmptyMap == [k \in {} |-> 0]

MapInsert(m, k, v) == [x \in DOMAIN m \cup {k} |-> IF x = k THEN v ELSE m[x]]

(***************************************************************************)
(* Loan                                                                    *)
(***************************************************************************)
LoanNew ==
    [ start_date         |-> 0,
      end_date           |-> 4,
      loan_amount        |-> FromInt(1000),
      loan_currency      |-> "USD",
      base_interest_rate |-> Rat(5, 100),
      margin             |-> Rat(1, 100),
      total_interest     |-> Zero,
      daily_information  |-> EmptyMap ]

Daily_Information(day_interest, day_interest_no_margin, days_elapsed) ==
    [ day_interest           |-> day_interest,
      day_interest_no_margin |-> day_interest_no_margin,
      days_elapsed           |-> days_elapsed ]

\* the loop "for day in 1..days+1", from its iteration `day` on
RECURSIVE accrue_days(_, _, _)
accrue_days(self, day, days) ==
    IF day > days THEN self.daily_information
    ELSE
        LET daily_interest_rate_no_margin ==
                RatDiv(self.base_interest_rate, FromInt(DaysPerYear))
            daily_interest_rate ==
                RatDiv(RatAdd(self.base_interest_rate, self.margin), FromInt(DaysPerYear))
            current_date == self.start_date + day
            daily_information ==
                Daily_Information(
                    RatMul(self.loan_amount, daily_interest_rate),
                    RatMul(self.loan_amount, daily_interest_rate_no_margin),
                    day)
            inserted == MapInsert(self.daily_information, current_date, daily_information)
        IN  accrue_days([self EXCEPT !.daily_information = inserted], day + 1, days)

\* calculate_interest with the loop started at day 0, so that the start date
\* gets an entry too
calculate_interest_from_day_zero(self) ==
    LET days == self.end_date - self.start_date
        daily_interest_rate ==
            RatDiv(RatAdd(self.base_interest_rate, self.margin), FromInt(DaysPerYear))
    IN  [self EXCEPT !.daily_information = accrue_days(self, 0, days),
                     !.total_interest =
                         RatMul(RatMul(self.loan_amount, daily_interest_rate),
                                FromInt(days))]

\* calculate_interest with the day count of the total clamped at zero
calculate_interest_clamped(self) ==
    LET days == self.end_date - self.start_date
        daily_interest_rate ==
            RatDiv(RatAdd(self.base_interest_rate, self.margin), FromInt(DaysPerYear))
    IN  [self EXCEPT !.daily_information = accrue_days(self, 1, days),
                     !.total_interest =
                         RatMul(RatMul(self.loan_amount, daily_interest_rate),
                                FromInt(IF days < 0 THEN 0 ELSE days))]

\* calculate_interest adding to the stored total instead of assigning it
calculate_interest_accumulating(self) ==
    LET days == self.end_date - self.start_date
        daily_interest_rate ==
            RatDiv(RatAdd(self.base_interest_rate, self.margin), FromInt(DaysPerYear))
    IN  [self EXCEPT !.daily_information = accrue_days(self, 1, days),
                     !.total_interest =
                         RatAdd(self.total_interest,
                                RatMul(RatMul(self.loan_amount, daily_interest_rate),
                                       FromInt(days)))]

calculate_interest(self) ==
    LET days == self.end_date - self.start_date
        total_interest_rate == RatAdd(self.base_interest_rate, self.margin)
        daily_interest_rate == RatDiv(total_interest_rate, FromInt(DaysPerYear))
        total_interest ==
            RatMul(RatMul(self.loan_amount, daily_interest_rate), FromInt(days))
    IN  [self EXCEPT !.daily_information = accrue_days(self, 1, days),
                     !.total_interest = total_interest]

\* lines 165-167: the reset update_loan applies to its clone of the stored loan
reset_derived(self) ==
    [self EXCEPT !.total_interest = Zero, !.daily_information = EmptyMap]

(***************************************************************************)
(* Console input.  One answer per prompt of update_loan_parameters; `bad`  *)
(* names the first answer that does not parse ("none" when all do).  The   *)
(* currency answer is taken as typed and never fails.                      *)
(***************************************************************************)
Input(start, end, amount, currency, base, margin_pct, bad) ==
    [ start_date |-> start, end_date |-> end, loan_amount |-> amount,
      loan_currency |-> currency, base_interest_rate |-> base,
      margin |-> margin_pct, bad |-> bad ]

ParsedFields == {"start_date", "end_date", "loan_amount", "base_interest_rate", "margin"}

update_loan_parameters(self, inp) ==
    IF inp.bad = "start_date" THEN [ok |-> FALSE, loan |-> self]
    ELSE IF inp.bad = "end_date" THEN [ok |-> FALSE, loan |-> self]
    ELSE IF inp.bad = "loan_amount" THEN [ok |-> FALSE, loan |-> self]
    ELSE IF inp.bad = "base_interest_rate" THEN [ok |-> FALSE, loan |-> self]
    ELSE IF inp.bad = "margin" THEN [ok |-> FALSE, loan |-> self]
    ELSE [ok |-> TRUE,
          loan |-> [self EXCEPT
                      !.start_date = inp.start_date,
                      !.end_date = inp.end_date,
                      !.loan_amount = FromInt(inp.loan_amount),
                      !.loan_currency = inp.loan_currency,
                      !.base_interest_rate =
                          RatDiv(FromInt(inp.base_interest_rate), FromInt(Percent)),
                      !.margin = RatDiv(FromInt(inp.margin), FromInt(Percent))]]

\* parse::<u32>() of the text typed for a loan id: the text is modelled by the
\* number it spells, and a number outside the type's range does not parse
parse_u32(text) ==
    IF text \in 0..MaxId THEN [ok |-> TRUE, v |-> text] ELSE [ok |-> FALSE, v |-> 0]

(***************************************************************************)
(* LoanCalculator                                                          *)
(***************************************************************************)
LoanCalculator_new == [loans |-> EmptyMap, next_loan_id |-> 1]

\* "self.next_loan_id += 1" on a u32: with overflow checks (debug profile) the
\* addition panics at the type's maximum, without them (release profile) it wraps
LoanCalculator_add_loan(self, new_loan, checks) ==
    LET loan_id == self.next_loan_id
        inserted == MapInsert(self.loans, loan_id, new_loan)
    IN  IF loan_id + 1 > MaxId /\ checks
        THEN [calc |-> [self EXCEPT !.loans = inserted],
              panicked |-> TRUE, loan_id |-> loan_id]
        ELSE [calc |-> [loans |-> inserted,
                        next_loan_id |-> (loan_id + 1) % (MaxId + 1)],
              panicked |-> FALSE, loan_id |-> loan_id]

LoanCalculator_update_loan(self, loan_id, updated_loan) ==
    IF loan_id \in DOMAIN self.loans
    THEN [calc |-> [self EXCEPT !.loans = MapInsert(self.loans, loan_id, updated_loan)],
          ok |-> TRUE]
    ELSE [calc |-> self, ok |-> FALSE]

(***************************************************************************)
(* Menu handlers, as functions of the calculator and the text typed.       *)
(***************************************************************************)
NoId == -1

Outcome(calc, res, id, inp) == [calc |-> calc, res |-> res, id |-> id, inp |-> inp]

add_loan(calc, inp, checks) ==
    LET params == update_loan_parameters(LoanNew, inp)
    IN  IF ~params.ok THEN Outcome(calc, "parse_error", NoId, <<>>)
        ELSE
            LET added == LoanCalculator_add_loan(calc, params.loan, checks)
                loan_id == added.loan_id
            IN  IF added.panicked THEN Outcome(added.calc, "panic", NoId, <<>>)
                ELSE
                    LET added_loan == calculate_interest(added.calc.loans[loan_id])
                    IN  Outcome(
                            [added.calc EXCEPT
                                !.loans = MapInsert(added.calc.loans, loan_id, added_loan)],
                            "ok", loan_id, <<inp>>)

\* update_loan with one step of the handler changed:
\*   "upsert"         an unknown id is stored as a new loan instead of rejected
\*   "no_reset"       the clone keeps its derived fields (lines 165-167 left out)
\*   "reset_in_place" the reset is applied to the stored loan, not to a clone
\*   "no_recompute"   calculate_interest is not called after the insert
update_loan_changed(calc, id_text, inp, change) ==
    LET parsed == parse_u32(id_text)
        loan_id == parsed.v
        known == loan_id \in DOMAIN calc.loans
        before == IF known THEN calc.loans[loan_id] ELSE LoanNew
        stored ==
            IF change = "reset_in_place" /\ known
            THEN [calc EXCEPT !.loans = MapInsert(calc.loans, loan_id, reset_derived(before))]
            ELSE calc
        cloned == IF change = "no_reset" THEN before ELSE reset_derived(before)
        params == update_loan_parameters(cloned, inp)
        new_loan ==
            IF change = "no_recompute" THEN params.loan ELSE calculate_interest(params.loan)
    IN  IF ~parsed.ok THEN Outcome(calc, "parse_error", NoId, <<>>)
        ELSE IF ~known /\ change # "upsert" THEN Outcome(calc, "not_found", loan_id, <<>>)
        ELSE IF ~params.ok THEN Outcome(stored, "parse_error", loan_id, <<>>)
        ELSE Outcome([stored EXCEPT !.loans = MapInsert(stored.loans, loan_id, new_loan)],
                     "ok", loan_id, <<inp>>)

update_loan_upsert(calc, id_text, inp) == update_loan_changed(calc, id_text, inp, "upsert")

update_loan_no_reset(calc, id_text, inp) ==
    update_loan_changed(calc, id_text, inp, "no_reset")

update_loan_reset_in_place(calc, id_text, inp) ==
    update_loan_changed(calc, id_text, inp, "reset_in_place")

update_loan_no_recompute(calc, id_text, inp) ==
    update_loan_changed(calc, id_text, inp, "no_recompute")

update_loan(calc, id_text, inp) ==
    LET parsed == parse_u32(id_text)
        loan_id == parsed.v
    IN  IF ~parsed.ok THEN Outcome(calc, "parse_error", NoId, <<>>)
        ELSE IF loan_id \notin DOMAIN calc.loans
        THEN Outcome(calc, "not_found", loan_id, <<>>)
        ELSE
            LET cloned == reset_derived(calc.loans[loan_id])
                params == update_loan_parameters(cloned, inp)
            IN  IF ~params.ok THEN Outcome(calc, "parse_error", loan_id, <<>>)
                ELSE
                    LET updated ==
                            LoanCalculator_update_loan(calc, loan_id, params.loan)
                    IN  IF ~updated.ok
                        THEN Outcome(updated.calc, "not_found", loan_id, <<>>)
                        ELSE
                            LET new_loan ==
                                    calculate_interest(updated.calc.loans[loan_id])
                            IN  Outcome(
                                    [updated.calc EXCEPT
                                        !.loans = MapInsert(updated.calc.loans,
                                                            loan_id, new_loan)],
                                    "ok", loan_id, <<inp>>)

show_loan_information(calc, id_text) ==
    LET parsed == parse_u32(id_text)
    IN  IF ~parsed.ok THEN Outcome(calc, "parse_error", NoId, <<>>)
        ELSE IF parsed.v \notin DOMAIN calc.loans
        THEN Outcome(calc, "not_found", parsed.v, <<>>)
        ELSE Outcome(calc, "ok", parsed.v, <<>>)

\* the order in which "for (loan_id, loan) in calc.loans.iter()" visits the keys
RECURSIVE ascending(_)
ascending(keys) ==
    IF keys = {} THEN <<>>
    ELSE LET least == CHOOSE k \in keys : \A other \in keys : k <= other
         IN  <<least>> \o ascending(keys \ {least})

show_all_loans(calc) == ascending(DOMAIN calc.loans)

(***************************************************************************)
(* Inputs                                                                  *)
(***************************************************************************)
GoodInputs(starts, ends, amounts) ==
    {Input(s, e, a, "USD", 5, 1, "none") : s \in starts, e \in ends, a \in amounts}

BadInputs == {Input(0, 0, 0, "USD", 0, 0, f) : f \in ParsedFields}

\* what is typed at the registry's prompts: a two-day loan, a one-day loan over a
\* shifted range, a zero-day loan, and answers that fail to parse
RegistryInputs == GoodInputs({0, 1, 2}, {2}, {1000}) \cup BadInputs

\* what the accrual engine is run on: every order of start and end date
EngineInputs == GoodInputs(0..MaxDate, 0..MaxDate, {1000, 2000})

\* texts typed for a loan id: every id of the type, and two that do not parse
IdTexts == -1..(MaxId + 1)

(***************************************************************************)
(* The menu loop of main                                                   *)
(***************************************************************************)
Handled(op, out) == [op |-> op, res |-> out.res, id |-> out.id, inp |-> out.inp]

Init ==
    /\ calculator = LoanCalculator_new
    /\ overflow_checks \in BOOLEAN
    /\ status = "running"
    /\ last = [op |-> "start", res |-> "ok", id |-> NoId, inp |-> <<>>]
    /\ issued = {}
    /\ loan = LoanNew
    /\ stage = "new"

AddLoan ==
    /\ status = "running"
    /\ \E inp \in RegistryInputs :
        LET out == add_loan(calculator, inp, overflow_checks)
        IN  /\ calculator' = out.calc
            /\ status' = IF out.res = "panic" THEN "panicked" ELSE status
            /\ last' = Handled("add", out)
            /\ issued' = IF out.res = "ok" THEN issued \cup {out.id} ELSE issued
    /\ UNCHANGED <<overflow_checks, loan, stage>>

UpdateLoan ==
    /\ status = "running"
    /\ \E id_text \in IdTexts, inp \in RegistryInputs :
        LET out == update_loan(calculator, id_text, inp)
        IN  /\ calculator' = out.calc
            /\ last' = Handled("update", out)
    /\ UNCHANGED <<overflow_checks, status, issued, loan, stage>>

ShowLoanInformation ==
    /\ status = "running"
    /\ \E id_text \in IdTexts :
        LET out == show_loan_information(calculator, id_text)
        IN  /\ calculator' = out.calc
            /\ last' = Handled("show", out)
    /\ UNCHANGED <<overflow_checks, status, issued, loan, stage>>

ShowAllLoans ==
    /\ status = "running"
    /\ last' = [op |-> "show_all", res |-> "ok", id |-> NoId, inp |-> <<>>]
    /\ UNCHANGED <<calculator, overflow_checks, status, issued, loan, stage>>

InvalidChoice ==
    /\ status = "running"
    /\ last' = [op |-> "invalid", res |-> "ok", id |-> NoId, inp |-> <<>>]
    /\ UNCHANGED <<calculator, overflow_checks, status, issued, loan, stage>>

Exit ==
    /\ status = "running"
    /\ status' = "exited"
    /\ last' = [op |-> "exit", res |-> "ok", id |-> NoId, inp |-> <<>>]
    /\ UNCHANGED <<calculator, overflow_checks, issued, loan, stage>>

Next ==
    \/ AddLoan
    \/ UpdateLoan
    \/ ShowLoanInformation
    \/ ShowAllLoans
    \/ InvalidChoice
    \/ Exit

Spec == Init /\ [][Next]_vars

(***************************************************************************)
(* The accrual engine on its own: a Loan whose parameters are set by       *)
(* update_loan_parameters and whose derived fields are written by          *)
(* calculate_interest and cleared by the reset of update_loan, in any      *)
(* order.                                                                  *)
(***************************************************************************)
EngineInit ==
    /\ calculator = LoanCalculator_new
    /\ overflow_checks = FALSE
    /\ status = "running"
    /\ last = [op |-> "start", res |-> "ok", id |-> NoId, inp |-> <<>>]
    /\ issued = {}
    /\ loan \in {update_loan_parameters(LoanNew, inp).loan : inp \in EngineInputs}
    /\ stage = "zeroed"

EngineCalculate ==
    /\ loan' = calculate_interest(loan)
    /\ stage' = IF stage = "zeroed" THEN "computed" ELSE "recomputed"
    /\ UNCHANGED registry_vars

EngineSetParameters ==
    /\ \E inp \in EngineInputs : loan' = update_loan_parameters(loan, inp).loan
    /\ stage' = IF stage = "zeroed" THEN "zeroed" ELSE "stale"
    /\ UNCHANGED registry_vars

EngineReset ==
    /\ loan' = reset_derived(loan)
    /\ stage' = "zeroed"
    /\ UNCHANGED registry_vars

EngineNext ==
    \/ EngineCalculate
    \/ EngineSetParameters
    \/ EngineReset

EngineSpec == EngineInit /\ [][EngineNext]_vars

(***************************************************************************)
(* Properties                                                              *)
(***************************************************************************)
Days(l) == l.end_date - l.start_date

\* the dates after the start date up to and including the end date
Elapsed(l) == (l.start_date + 1)..l.end_date

RECURSIVE SumDayInterest(_, _)
SumDayInterest(info, dates) ==
    IF dates = {} THEN Zero
    ELSE LET d == CHOOSE x \in dates : TRUE
         IN  RatAdd(info[d].day_interest, SumDayInterest(info, dates \ {d}))

\* the loan a fresh Loan becomes when `inp` is typed and interest is calculated
FromParameters(inp) == calculate_interest(update_loan_parameters(LoanNew, inp).loan)

Computed == stage \in {"computed", "recomputed"}

\* C1: while the menu loop runs (a read can be chosen), every loan stored in the
\* registry carries exactly the total_interest and daily_information that
\* calculate_interest produces from its own parameters and cleared derived fields.
C1_StoredLoansConsistent ==
    status # "panicked" =>
        \A id \in DOMAIN calculator.loans :
            calculator.loans[id] = calculate_interest(reset_derived(calculator.loans[id]))

\* C1 witness: a successful update has just been handled, two loans are stored and
\* the updated one has daily entries.
C1_Witness ==
    /\ status = "running"
    /\ last.op = "update" /\ last.res = "ok"
    /\ Cardinality(DOMAIN calculator.loans) >= 2
    /\ calculator.loans[last.id].daily_information # EmptyMap

\* C2: a loan computed from cleared derived fields has max(0, days) daily entries,
\* keyed by exactly the dates start_date+1 .. end_date, the entry of start_date+k
\* has days_elapsed = k, and the map is empty when end_date = start_date.
C2_OneEntryPerElapsedDay ==
    stage = "computed" =>
        /\ DOMAIN loan.daily_information = Elapsed(loan)
        /\ Cardinality(DOMAIN loan.daily_information)
               = (IF Days(loan) > 0 THEN Days(loan) ELSE 0)
        /\ loan.start_date \notin DOMAIN loan.daily_information
        /\ Days(loan) > 0 => loan.end_date \in DOMAIN loan.daily_information
        /\ \A k \in 1..Days(loan) :
               loan.daily_information[loan.start_date + k].days_elapsed = k
        /\ loan.end_date = loan.start_date => loan.daily_information = EmptyMap

\* C2 witness: a loan of at least two days computed from cleared derived fields.
C2_Witness ==
    /\ stage = "computed"
    /\ Days(loan) >= 2
    /\ Cardinality(DOMAIN loan.daily_information) = Days(loan)

\* C3: after calculate_interest, total_interest * 365 = loan_amount *
\* (base_interest_rate + margin) * days for the signed day count; it is 0 when
\* end_date = start_date; for a loan computed from cleared derived fields it is
\* the sum of day_interest over the daily entries when days > 0, and when
\* end_date < start_date it is negative (positive amount and rate) with no entry.
C3_TotalInterestFormula ==
    Computed =>
        /\ RatMul(loan.total_interest, FromInt(DaysPerYear))
               = RatMul(RatMul(loan.loan_amount,
                               RatAdd(loan.base_interest_rate, loan.margin)),
                        FromInt(Days(loan)))
        /\ Days(loan) = 0 => loan.total_interest = Zero
        /\ (stage = "computed" /\ Days(loan) > 0) =>
               loan.total_interest
                   = SumDayInterest(loan.daily_information, DOMAIN loan.daily_information)
        /\ ( /\ stage = "computed"
             /\ Days(loan) < 0
             /\ RatPos(loan.loan_amount)
             /\ RatPos(RatAdd(loan.base_interest_rate, loan.margin)) ) =>
               /\ RatNeg(loan.total_interest)
               /\ loan.daily_information = EmptyMap

\* C3 witness: a loan whose end date precedes its start date has been computed,
\* with a negative total and no daily entry.
C3_Witness ==
    /\ stage = "computed"
    /\ Days(loan) < 0
    /\ RatNeg(loan.total_interest)
    /\ loan.daily_information = EmptyMap

\* C4: an update naming an id that is not a key of the registry answers not_found
\* and changes nothing: the keys, every stored loan and next_loan_id are as
\* before, and so is the listing; and not_found is answered in no other case.
C4_UnknownIdLeavesRegistry ==
    [][ /\ ( /\ last'.op = "update"
             /\ last'.id # NoId
             /\ last'.id \notin DOMAIN calculator.loans ) =>
               /\ last'.res = "not_found"
               /\ calculator' = calculator
               /\ show_all_loans(calculator') = show_all_loans(calculator)
        /\ (last'.op = "update" /\ last'.res = "not_found") =>
               /\ last'.id \notin DOMAIN calculator.loans
               /\ calculator' = calculator
      ]_vars

\* C4 witness: an update of an unknown id was answered not_found while loans are
\* stored.
C4_Witness ==
    /\ last.op = "update" /\ last.res = "not_found"
    /\ last.id \notin DOMAIN calculator.loans
    /\ calculator.loans # EmptyMap

\* C5: a successful update of a known id leaves under that id the loan that the
\* typed parameters alone determine (its daily entries are keyed by the new
\* range only and its total is the new total), and leaves the set of ids,
\* next_loan_id and every other loan as they were.
C5_UpdateReplacesLoan ==
    [][ (last'.op = "update" /\ last'.res = "ok") =>
            LET id == last'.id
                inp == last'.inp[1]
                new == calculator'.loans[id]
            IN  /\ id \in DOMAIN calculator.loans
                /\ DOMAIN calculator'.loans = DOMAIN calculator.loans
                /\ calculator'.next_loan_id = calculator.next_loan_id
                /\ \A other \in DOMAIN calculator.loans \ {id} :
                       calculator'.loans[other] = calculator.loans[other]
                /\ new.start_date = inp.start_date
                /\ new.end_date = inp.end_date
                /\ new.loan_amount = FromInt(inp.loan_amount)
                /\ new.loan_currency = inp.loan_currency
                /\ RatMul(new.base_interest_rate, FromInt(Percent))
                       = FromInt(inp.base_interest_rate)
                /\ RatMul(new.margin, FromInt(Percent)) = FromInt(inp.margin)
                /\ DOMAIN new.daily_information = Elapsed(new)
                /\ new = FromParameters(inp)
      ]_vars

\* C5 witness: a successful update left a one-day loan beside another stored loan
\* of two days.
C5_Witness ==
    /\ last.op = "update" /\ last.res = "ok"
    /\ Cardinality(DOMAIN calculator.loans[last.id].daily_information) = 1
    /\ \E other \in DOMAIN calculator.loans \ {last.id} :
           Cardinality(DOMAIN calculator.loans[other].daily_information) = 2

\* C6: the ids returned by successive creations start at 1, each is greater than
\* every id returned before, and none is returned twice.
C6_IdsIncreaseNeverReused ==
    [][ (last'.op = "add" /\ last'.res = "ok") =>
            /\ last'.id \notin issued
            /\ \A earlier \in issued : earlier < last'.id
            /\ issued = {} => last'.id = 1
      ]_vars

\* C7 (as stated): after calculate_interest, whatever the derived fields held
\* before, the loan equals what calculate_interest yields from the same
\* parameters with cleared derived fields.
C7_ComputeReplacesDerived ==
    Computed => loan = calculate_interest(reset_derived(loan))

\* C7 (amended): calculate_interest replaces total_interest whatever it held,
\* writes the entries of start_date+1 .. end_date over any entries with those
\* dates, keeps every earlier entry dated outside that range, leaves the
\* parameters alone, and applied once more changes nothing.
C7_ComputeOverwritesWithinRange ==
    [][ (stage' \in {"computed", "recomputed"}) =>
            LET fresh == calculate_interest(reset_derived(loan))
            IN  /\ loan'.total_interest = fresh.total_interest
                /\ DOMAIN loan'.daily_information
                       = DOMAIN loan.daily_information \cup Elapsed(loan)
                /\ \A d \in DOMAIN loan'.daily_information :
                       loan'.daily_information[d]
                           = IF d \in Elapsed(loan)
                             THEN fresh.daily_information[d]
                             ELSE loan.daily_information[d]
                /\ reset_derived(loan') = reset_derived(loan)
                /\ calculate_interest(loan') = loan'
      ]_vars

\* C7 witness: a loan was recomputed over a changed range and still holds an
\* entry dated outside its current range.
C7_Witness ==
    /\ stage = "recomputed"
    /\ \E d \in DOMAIN loan.daily_information : d \notin Elapsed(loan)

\* C8: a creation whose parameters parsed cannot fail, stores the new loan under
\* an id that was not a key of the registry, returns that id, and leaves every
\* loan stored before as it was.
C8_CreateNeverOverwrites ==
    [][ (last'.op = "add" /\ last'.res # "parse_error") =>
            /\ last'.res = "ok"
            /\ last'.id \notin DOMAIN calculator.loans
            /\ last'.id \in DOMAIN calculator'.loans
            /\ \A old \in DOMAIN calculator.loans :
                   /\ old \in DOMAIN calculator'.loans
                   /\ calculator'.loans[old] = calculator.loans[old]
      ]_vars

\* C9: when an answer fails to parse during add-loan or update-loan, the
\* registry is exactly as before: no loan stored, no id consumed, and the loan
\* named in a failed update keeps its parameters and its derived fields.
C9_ParseFailureLeavesRegistry ==
    [][ (last'.op \in {"add", "update"} /\ last'.res = "parse_error") =>
            /\ calculator' = calculator
            /\ issued' = issued
      ]_vars

\* C9 witness: an update of a stored loan with daily entries has just failed to
\* parse its parameters.
C9_Witness ==
    /\ last.op = "update" /\ last.res = "parse_error"
    /\ last.id \in DOMAIN calculator.loans
    /\ calculator.loans[last.id].daily_information # EmptyMap

\* C10: while the menu loop runs, the ids stored are exactly 1 .. next_loan_id - 1
\* and the listing enumerates them in that order.
C10_IdsDense ==
    status = "running" =>
        /\ DOMAIN calculator.loans = 1..(calculator.next_loan_id - 1)
        /\ show_all_loans(calculator)
               = [i \in 1..(calculator.next_loan_id - 1) |-> i]

====
